---- MODULE Spec2Model ----
(***************************************************************************)
(* Wolfe line search and Gauss-Newton iteration of                         *)
(* jupyter/con_ana_8.ipynb, over exact rational scalars (dimension n = 1). *)
(* A real number is a pair <<num, den>> in lowest terms with den > 0;      *)
(* +infinity (np.inf) is <<1, 0>>.                                         *)
(***************************************************************************)
EXTENDS Integers, Sequences, FiniteSets, TLC

\* Largest outer-iteration budget N and line-search cap lsi that are enumerated.
MaxN == 2
MaxLsi == 2

----------------------------------------------------------------------------
\* Scalar arithmetic.

Abs(n) == IF n < 0 THEN -n ELSE n

RECURSIVE GCD(_, _)
GCD(a, b) == IF b = 0 THEN a ELSE GCD(b, a % b)

LCM(a, b) == (a \div GCD(a, b)) * b

Rat(n, d) == LET g == GCD(Abs(n), d) IN <<n \div g, d \div g>>

Int2R(n) == <<n, 1>>

Zero == Int2R(0)

Inf == <<1, 0>>

IsInf(q) == q[2] = 0

RNeg(q) == <<-q[1], q[2]>>

RAbs(q) == <<Abs(q[1]), q[2]>>

RAdd(p, q) ==
  IF IsInf(p) \/ IsInf(q) THEN Inf
  ELSE LET l == LCM(p[2], q[2])
       IN  Rat(p[1] * (l \div p[2]) + q[1] * (l \div q[2]), l)

RMul(p, q) ==
  IF IsInf(p) \/ IsInf(q) THEN Inf
  ELSE LET g1 == GCD(Abs(p[1]), q[2])
           g2 == GCD(Abs(q[1]), p[2])
       IN  Rat((p[1] \div g1) * (q[1] \div g2), (p[2] \div g2) * (q[2] \div g1))

RDiv(p, q) ==
  IF q[1] < 0 THEN RMul(p, <<-q[2], -q[1]>>) ELSE RMul(p, <<q[2], q[1]>>)

RLt(p, q) ==
  IF IsInf(p) THEN FALSE
  ELSE IF IsInf(q) THEN TRUE
  ELSE LET l == LCM(p[2], q[2])
       IN  p[1] * (l \div p[2]) < q[1] * (l \div q[2])

RLe(p, q) == ~RLt(q, p)

Last(s) == s[Len(s)]

----------------------------------------------------------------------------
\* Inputs of a call gauss_newton( x, f, df, r, J, N, err, c1, c2, lsi ).

\* Pairs <<c1, c2>> of Wolfe constants, c1 < c2 in (0, 1).
CPairs ==
  { <<Rat(1, 4), Rat(1, 2)>>, <<Rat(1, 2), Rat(3, 4)>>, <<Rat(3, 5), Rat(4, 5)>> }

\* Tolerances err.
ErrVals == { Int2R(-1), Zero, Rat(1, 100), Int2R(1), Int2R(4) }

\* Starting points of the quadratic problem.
QuadStarts == { Int2R(-2), Int2R(-1), Zero, Int2R(1), Int2R(3) }

\* An opaque pair of callables f, df is sampled where it is evaluated:
\* the pair <<f(pt), df(pt)>> at a point not evaluated before is one of Vals.
Vals == { <<Zero, Int2R(-4)>>, <<Int2R(-3), Int2R(-4)>>, <<Int2R(-3), Zero>> }

VARIABLES
  prob,    \* which callables the caller supplies: "quad" or "opaque"
  x0,      \* the contents of the array the caller passed as x
  aliased, \* whether x of gauss_newton still names the caller's array
  N, err, c1, c2, lsi,   \* arguments of gauss_newton
  pc,      \* "gn": loop test of gauss_newton; "ls": loop test of
           \* line_search_wolfe; "ls_ret": line_search_wolfe has returned;
           \* "done": gauss_newton has returned
  x, alpha, p, ng, F, G, k,   \* locals of gauss_newton
  ls,      \* locals of the current line_search_wolfe call
  ret,     \* the triple ( alpha, i, chk ) line_search_wolfe returned
  seen,    \* values of the opaque callables at the points evaluated so far
  ncall    \* number of line_search_wolfe calls made

vars == << prob, x0, aliased, N, err, c1, c2, lsi, pc, x, alpha, p, ng, F, G,
           k, ls, ret, seen, ncall >>

args == << prob, N, err, c1, c2, lsi >>

caller == << x0, aliased >>

----------------------------------------------------------------------------
\* The callables.

\* r(x) = x, J(x) = 1, f(x) = x^2 / 2, df(x) = x.
QuadF(pt) == RMul(Rat(1, 2), RMul(pt, pt))

QuadDf(pt) == pt

QuadR(pt) == pt

QuadJ(pt) == Int2R(1)

\* Opaque residual and Jacobian: constant, so that the direction is 1.
OpaqueR(pt) == Int2R(-1)

OpaqueJ(pt) == Int2R(1)

r(pt) == IF prob = "quad" THEN QuadR(pt) ELSE OpaqueR(pt)

J(pt) == IF prob = "quad" THEN QuadJ(pt) ELSE OpaqueJ(pt)

\* The possible pairs <<f(pt), df(pt)>> given the values in memo sn.
Outcomes(sn, pt) ==
  IF prob = "quad" THEN { <<QuadF(pt), QuadDf(pt)>> }
  ELSE IF pt \in DOMAIN sn THEN { sn[pt] }
  ELSE Vals

Remember(sn, pt, v) ==
  IF prob = "quad" \/ pt \in DOMAIN sn THEN sn ELSE (pt :> v) @@ sn

\* np.linalg.lstsq( Jx, b, rcond = None )[0] for a 1 x 1 system: the
\* minimum-norm least-squares solution.
Lstsq(Jx, b) == IF Jx = Zero THEN Zero ELSE RDiv(b, Jx)

\* la.norm of a vector of dimension 1.
Norm(v) == RAbs(v)

----------------------------------------------------------------------------
\* line_search_wolfe( x, a, p, f, g, c1, c2, m )

\* Slip: half the width of the bracket instead of its midpoint.
Midpoint_HalfWidth(lo, hi) == RMul(Rat(1, 2), RAdd(hi, RNeg(lo)))

Midpoint(lo, hi) == RMul(Rat(1, 2), RAdd(lo, hi))

\* Slip: "alpha = 2 + alpha".
Double_Plus(al) == RAdd(Int2R(2), al)

Double(al) == RMul(Int2R(2), al)

\* Slip: the test "alpha_max >= np.inf" inverted.
Unbounded_Inverted(amax) == ~RLe(Inf, amax)

Unbounded(amax) == RLe(Inf, amax)

W1Of(fx, al, cc1, hx) == RAdd(fx, RMul(al, RMul(cc1, hx)))

W2Of(cc2, hx) == RMul(cc2, hx)

\* The locals after lines 51-66, vx and vz being the values of f and g at
\* x and at the first trial point; fcalls and gcalls count the calls of f
\* and of g made so far (lines 55, 60 and 56, 61).
LSEnter(xx, a, pp, vx, vz, cc1, cc2, m) ==
  LET hx == RMul(vx[2], pp)
  IN  [ x |-> xx, a |-> a, p |-> pp, c1 |-> cc1, c2 |-> cc2, m |-> m,
        alpha_min |-> Zero, alpha |-> a, alpha_max |-> Inf,
        fx |-> vx[1], hx |-> hx,
        z |-> RAdd(xx, RMul(a, pp)), fz |-> vz[1], hz |-> RMul(vz[2], pp),
        W1 |-> W1Of(vx[1], a, cc1, hx), W2 |-> W2Of(cc2, hx), i |-> 0,
        fcalls |-> 2, gcalls |-> 2 ]

NoFrame ==
  [ x |-> Zero, a |-> Zero, p |-> Zero, c1 |-> Zero, c2 |-> Zero, m |-> 0,
    alpha_min |-> Zero, alpha |-> Zero, alpha_max |-> Inf,
    fx |-> Zero, hx |-> Zero, z |-> Zero, fz |-> Zero, hz |-> Zero,
    W1 |-> Zero, W2 |-> Zero, i |-> 0, fcalls |-> 0, gcalls |-> 0 ]

\* Slip: the cap "i < m" left out of the loop test.
LoopCond_NoCap(l) == RLe(l.W1, l.fz) \/ RLe(l.hz, l.W2)

\* Slip: the cap written "i <= m".
LoopCond_OffByOne(l) == (RLe(l.W1, l.fz) \/ RLe(l.hz, l.W2)) /\ l.i <= l.m

\* while ( ( fz >= W1 or hz <= W2 ) and i < m )
LoopCond(l) == (RLe(l.W1, l.fz) \/ RLe(l.hz, l.W2)) /\ l.i < l.m

\* Slip: the branch test written like the loop test, "fz >= W1".
ArmijoFails_NonStrict(l) == RLe(l.W1, l.fz)

ArmijoFails(l) == RLt(l.W1, l.fz)

CurvatureFails(l) == RLt(l.hz, l.W2)

\* chk = fz > W1 or hz < W2
Chk(l) == ArmijoFails(l) \/ CurvatureFails(l)

\* The bracket after the if / elif of one iteration (lines 68-77).
Shrink(l) ==
  [ l EXCEPT !.alpha_max = l.alpha,
             !.alpha = Midpoint(l.alpha_min, l.alpha) ]

Expand(l) == [ l EXCEPT !.alpha = Double(l.alpha) ]

\* Slip: the upper end reopened when the lower end is raised.
Raise_Reopen(l) ==
  [ l EXCEPT !.alpha_min = l.alpha,
             !.alpha_max = Inf,
             !.alpha = Midpoint(l.alpha, l.alpha_max) ]

Raise(l) ==
  [ l EXCEPT !.alpha_min = l.alpha,
             !.alpha = Midpoint(l.alpha, l.alpha_max) ]

\* Slip: f and g not called again when the trial point has not moved.
Evaluated_Cached(l, z, v) ==
  [ l EXCEPT !.z = z, !.fz = v[1], !.hz = RMul(v[2], l.p), !.i = l.i + 1,
             !.fcalls = IF z = l.z THEN l.fcalls ELSE l.fcalls + 1,
             !.gcalls = IF z = l.z THEN l.gcalls ELSE l.gcalls + 1 ]

\* Lines 79-83: f and g called at the trial point z, v their values.
Evaluated(l, z, v) ==
  [ l EXCEPT !.z = z, !.fz = v[1], !.hz = RMul(v[2], l.p), !.i = l.i + 1,
             !.fcalls = l.fcalls + 1, !.gcalls = l.gcalls + 1 ]

\* Lines 79-83: the new trial point and the values there.
Retry(l) ==
  LET z == RAdd(l.x, RMul(l.alpha, l.p))
  IN  \E v \in Outcomes(seen, z) :
        /\ ls' = Evaluated(l, z, v)
        /\ seen' = Remember(seen, z, v)
        /\ UNCHANGED << args, caller, pc, x, alpha, p, ng, F, G, k, ret,
                        ncall >>

LSShrink ==
  /\ pc = "ls" /\ LoopCond(ls)
  /\ ArmijoFails(ls)
  /\ Retry(Shrink(ls))

LSExpand ==
  /\ pc = "ls" /\ LoopCond(ls)
  /\ ~ArmijoFails(ls) /\ CurvatureFails(ls)
  /\ Unbounded(ls.alpha_max)
  /\ Retry(Expand(ls))

LSRaise ==
  /\ pc = "ls" /\ LoopCond(ls)
  /\ ~ArmijoFails(ls) /\ CurvatureFails(ls)
  /\ ~Unbounded(ls.alpha_max)
  /\ Retry(Raise(ls))

\* Neither branch applies: fz = W1 or hz = W2 without a strict violation.
LSKeep ==
  /\ pc = "ls" /\ LoopCond(ls)
  /\ ~ArmijoFails(ls) /\ ~CurvatureFails(ls)
  /\ Retry(ls)

LSReturn ==
  /\ pc = "ls" /\ ~LoopCond(ls)
  /\ ret' = [ alpha |-> ls.alpha, i |-> ls.i, chk |-> Chk(ls) ]
  /\ pc' = "ls_ret"
  /\ UNCHANGED << args, caller, x, alpha, p, ng, F, G, k, ls, seen, ncall >>

----------------------------------------------------------------------------
\* gauss_newton( x, f, df, r, J, N, err, c1, c2, lsi )

\* Slips of the loop test: "ng >= err", and "k <= N".
GNCond_NonStrict(kk, NN, g, e) == kk < NN /\ RLe(e, g)

GNCond_OffByOne(kk, NN, g, e) == kk <= NN /\ RLt(e, g)

\* while k < N and ng > err
GNCond(kk, NN, g, e) == kk < NN /\ RLt(e, g)

\* Slip: every line search started from 1.
Guess_Reset(al) == Int2R(1)

\* The step guess passed to line_search_wolfe: the current alpha (line 122).
Guess(al) == al

\* Slip: the loop entered with ng = err.
NgInit_Tolerance(e) == e

\* ng = 2 * err (line 112)
NgInit(e) == RMul(Int2R(2), e)

\* Lines 119-122 up to the entry of line_search_wolfe and its lines 51-66.
GNStep ==
  /\ pc = "gn" /\ GNCond(k, N, ng, err)
  /\ LET pp == Lstsq(J(x), RNeg(r(x)))
         a == Guess(alpha)
         z == RAdd(x, RMul(a, pp))
     IN  \E vx \in Outcomes(seen, x) :
           LET s1 == Remember(seen, x, vx)
           IN  \E vz \in Outcomes(s1, z) :
                 /\ p' = pp
                 /\ ls' = LSEnter(x, a, pp, vx, vz, c1, c2, lsi)
                 /\ seen' = Remember(s1, z, vz)
  /\ pc' = "ls"
  /\ ncall' = ncall + 1
  /\ UNCHANGED << args, caller, x, alpha, ng, F, G, k, ret >>

\* Slip: the result of a line search flagged by chk rejected, alpha kept.
Accepted_Unflagged(rt, al) == IF rt.chk THEN al ELSE rt.alpha

\* [ alpha, i, chk ] = line_search_wolfe( ... ): the new alpha (line 122).
Accepted(rt, al) == rt.alpha

\* Slip: "x += alpha * p", which writes into the array x names.
Rebind_InPlace(cx, xn, al) ==
  [ caller |-> IF al THEN xn ELSE cx, aliased |-> al ]

\* x = x + alpha * p (line 123): x names a new array; the array of contents
\* cx that the caller passed is not written.
Rebind(cx, xn, al) == [ caller |-> cx, aliased |-> FALSE ]

\* Slip: the histories appended before x is updated.
Recorded_Before(xold, xnew) == xold

\* The point at which df and f are evaluated for G and F (lines 124-126).
Recorded(xold, xnew) == xnew

\* Lines 122-127 after line_search_wolfe has returned.
GNUpdate ==
  /\ pc = "ls_ret"
  /\ LET al == Accepted(ret, alpha)
         xn == RAdd(x, RMul(al, p))
         pt == Recorded(x, xn)
         b == Rebind(x0, xn, aliased)
     IN  \E v \in Outcomes(seen, pt) :
           /\ alpha' = al
           /\ x' = xn
           /\ x0' = b.caller
           /\ aliased' = b.aliased
           /\ ng' = Norm(v[2])
           /\ G' = Append(G, Norm(v[2]))
           /\ F' = Append(F, v[1])
           /\ seen' = Remember(seen, pt, v)
  /\ k' = k + 1
  /\ pc' = "gn"
  /\ UNCHANGED << args, p, ls, ret, ncall >>

\* return [ x, F, G, k ]
GNReturn ==
  /\ pc = "gn" /\ ~GNCond(k, N, ng, err)
  /\ pc' = "done"
  /\ UNCHANGED << args, caller, x, alpha, p, ng, F, G, k, ls, ret, seen,
                  ncall >>

Init ==
  /\ prob \in { "quad", "opaque" }
  /\ x0 \in (IF prob = "quad" THEN QuadStarts ELSE { Zero })
  /\ aliased = TRUE
  /\ N \in (IF prob = "quad" THEN (0 .. MaxN) \cup { 5 } ELSE 0 .. MaxN)
  /\ err \in ErrVals
  /\ \E cp \in CPairs : c1 = cp[1] /\ c2 = cp[2]
  /\ lsi \in 0 .. MaxLsi
  /\ pc = "gn"
  /\ x = x0
  /\ alpha = Int2R(1)
  /\ p = Zero
  /\ ng = NgInit(err)
  /\ F = << >>
  /\ G = << >>
  /\ k = 0
  /\ ls = NoFrame
  /\ ret = [ alpha |-> Zero, i |-> 0, chk |-> FALSE ]
  /\ seen = << >>
  /\ ncall = 0

Next ==
  \/ GNStep
  \/ LSShrink
  \/ LSExpand
  \/ LSRaise
  \/ LSKeep
  \/ LSReturn
  \/ GNUpdate
  \/ GNReturn

Spec == Init /\ [][Next]_vars

----------------------------------------------------------------------------
\* Properties of gauss_newton.

Positive(q) == RLt(Zero, q)

StrictlyDecreasing(s) == \A j \in 1 .. Len(s) - 1 : RLt(s[j + 1], s[j])

\* C1: with err > 0 and N >= 1, every entry of G but the last is > err (no
\* outer iteration follows one whose gradient norm is <= err), and on return
\* k = N or the last entry of G is <= err.
C1_StopsAtTolerance ==
  (Positive(err) /\ N >= 1) =>
    /\ \A j \in 1 .. Len(G) - 1 : RLt(err, G[j])
    /\ pc = "done" => (k = N \/ (Len(G) > 0 /\ RLe(Last(G), err)))

\* A call that returned before its budget, after two or more iterations.
C1_Witness ==
  /\ pc = "done" /\ Positive(err)
  /\ k < N /\ Len(G) >= 2
  /\ RLe(Last(G), err)

\* C2: 0 <= k <= N, k is the number of outer iterations executed (one
\* line_search_wolfe call each), and F and G have exactly k entries.
C2_CountAndHistories ==
  /\ k \in 0 .. N
  /\ Len(F) = k /\ Len(G) = k
  /\ ncall = (IF pc \in { "ls", "ls_ret" } THEN k + 1 ELSE k)

C2_Witness == pc = "done" /\ k >= 2 /\ k < N /\ Len(F) = k

----------------------------------------------------------------------------
\* Properties of line_search_wolfe.

InCall == pc \in { "ls", "ls_ret" }

\* The two Wolfe conditions at step al, the trial values fz, hz being those
\* at x + al * p.
ArmijoAt(l, al) == RLe(l.fz, RAdd(l.fx, RMul(al, RMul(l.c1, l.hx))))

CurvatureAt(l) == RLe(RMul(l.c2, l.hx), l.hz)

\* C3: the returned flag is true exactly when both Wolfe conditions hold at
\* the returned alpha (and false when the search gave up without them).
C3_FlagMeansSatisfied ==
  pc = "ls_ret" =>
    (ret.chk <=> (ArmijoAt(ls, ret.alpha) /\ CurvatureAt(ls)))

\* C4: a call with a > 0 and g(x).p < 0 that returns with i < m returns an
\* alpha that satisfies sufficient decrease at that alpha, and curvature.
C4_EarlyReturnIsWolfe ==
  (pc = "ls_ret" /\ ret.i < ls.m /\ Positive(ls.a) /\ RLt(ls.hx, Zero)) =>
    (ArmijoAt(ls, ret.alpha) /\ CurvatureAt(ls))

\* C5: with a > 0, alpha_min <= alpha <= alpha_max at entry and after every
\* bracketing iteration, alpha > 0 throughout, and the returned alpha is > 0.
C5_BracketOrdered ==
  (InCall /\ Positive(ls.a)) =>
    /\ RLe(ls.alpha_min, ls.alpha)
    /\ RLe(ls.alpha, ls.alpha_max)
    /\ Positive(ls.alpha)
    /\ pc = "ls_ret" => Positive(ret.alpha)

\* A bracket with both ends moved: 0 < alpha_min <= alpha <= alpha_max < inf.
C5_Witness ==
  /\ pc = "ls" /\ Positive(ls.a) /\ ls.i >= 2
  /\ Positive(ls.alpha_min) /\ ~IsInf(ls.alpha_max)

\* C6: in one call alpha_min starts at 0 and never decreases; alpha_max
\* starts at +infinity and, once finite, never increases nor becomes
\* infinite again.
C6_BracketMonotone ==
  [][ /\ (pc = "gn" /\ pc' = "ls") =>
           (ls'.alpha_min = Zero /\ ls'.alpha_max = Inf)
      /\ (pc = "ls" /\ pc' = "ls") =>
           /\ RLe(ls.alpha_min, ls'.alpha_min)
           /\ ~IsInf(ls.alpha_max) =>
                (~IsInf(ls'.alpha_max) /\ RLe(ls'.alpha_max, ls.alpha_max))
    ]_vars

\* alpha_max lowered twice, or alpha_min raised under a finite alpha_max.
C6_Witness ==
  /\ pc = "ls" /\ ls.i = 2
  /\ \/ RLt(ls.alpha_max, ls.a)
     \/ (Positive(ls.alpha_min) /\ ~IsInf(ls.alpha_max))

\* C7: alpha is doubled only in an iteration that starts with alpha_max =
\* +infinity; in an iteration that starts with, or makes, alpha_max finite,
\* a change of alpha is to the midpoint of the new alpha_min, alpha_max.
C7_DoubleOnlyUnbounded ==
  [][ (pc = "ls" /\ pc' = "ls") =>
        /\ ls'.alpha = Double(ls.alpha) => IsInf(ls.alpha_max)
        /\ (~IsInf(ls'.alpha_max) /\ ls'.alpha # ls.alpha) =>
             /\ ls'.alpha = Midpoint(ls'.alpha_min, ls'.alpha_max)
             /\ ls'.alpha # Double(ls.alpha)
    ]_vars

\* A doubling followed by the iteration that makes alpha_max finite.
C7_Witness ==
  /\ pc = "ls" /\ ls.i >= 2
  /\ ~IsInf(ls.alpha_max) /\ ls.alpha_max = Double(ls.a)

\* Steps left before gauss_newton returns, at most: lsi + 3 per outer
\* iteration (entry, lsi bracketing iterations, return, update), one to return.
Rank ==
  LET per == lsi + 3
      left == (N - k) * per + 1
  IN  CASE pc = "gn" -> left
        [] pc = "ls" -> left - 1 - ls.i
        [] pc = "ls_ret" -> left - per + 1
        [] pc = "done" -> 0

\* C8: both loops terminate: a call of line_search_wolfe makes at most m
\* iterations and returns i in 0 .. m; gauss_newton makes at most N outer
\* iterations, each with exactly one line_search_wolfe call of cap lsi; every
\* step lowers Rank, which stays >= 0.
C8_Terminates ==
  /\ [][Rank' < Rank]_vars
  /\ [](/\ Rank >= 0
        /\ k \in 0 .. N
        /\ InCall => (ls.m = lsi /\ ls.i \in 0 .. ls.m)
        /\ pc = "ls_ret" => ret.i \in 0 .. ls.m
        /\ ncall = (IF InCall THEN k + 1 ELSE k))

\* A run that spent its whole budget N, the last line search its whole cap.
C8_Witness == pc = "done" /\ k = N /\ N >= 2 /\ ret.i = lsi /\ lsi >= 2

\* C9: a call that used all m iterations with the last trial still failing
\* the loop's test returns that trial's alpha, flagged as unsatisfied (the
\* flag of C3, false for unsatisfied).
C9_GiveUpFlagged ==
  (pc = "ls_ret" /\ ret.i = ls.m /\ (RLe(ls.W1, ls.fz) \/ RLe(ls.hz, ls.W2))) =>
    /\ ret.alpha = ls.alpha
    /\ ls.z = RAdd(ls.x, RMul(ret.alpha, ls.p))
    /\ ret.chk = FALSE

----------------------------------------------------------------------------
\* The quadratic problem r(x) = x, J(x) = 1, f(x) = x^2 / 2, df(x) = x.

QuadRun == prob = "quad" /\ N >= 5 /\ Positive(err) /\ pc = "done"

\* C10 as stated: for every x0 and every c1 < c2 in (0, 1), with N >= 5 and
\* err > 0, gauss_newton returns x = 0 after at most 5 outer iterations with
\* a strictly decreasing G.
C10_QuadConverges ==
  QuadRun => (x = Zero /\ k <= 5 /\ StrictlyDecreasing(G))

\* C10 amended: the same for c1 <= 1/2.
C10_QuadConvergesSmallC1 ==
  (QuadRun /\ RLe(c1, Rat(1, 2))) =>
    (x = Zero /\ k <= 5 /\ StrictlyDecreasing(G))

\* A run from x0 # 0 with c1 <= 1/2 that has returned the minimizer.
C10_Witness ==
  /\ QuadRun /\ RLe(c1, Rat(1, 2)) /\ x0 # Zero /\ lsi >= 1
  /\ k >= 1 /\ x = Zero /\ Last(G) = Zero


----------------------------------------------------------------------------
\* Values of the callables at a point they have been evaluated at.
Known(sn, pt) == prob = "quad" \/ pt \in DOMAIN sn

ValueAt(sn, pt) == IF prob = "quad" THEN <<QuadF(pt), QuadDf(pt)>> ELSE sn[pt]

\* C12: the step guess handed to line_search_wolfe is 1 in the first outer
\* iteration and, in every later one, the alpha the previous line search
\* returned.
C12_WarmStart ==
  [][(pc = "gn" /\ pc' = "ls")
       => ls'.a = (IF k = 0 THEN Int2R(1) ELSE ret.alpha)]_vars

\* A later line search has started from a returned alpha other than 1.
C12_Witness == pc = "ls" /\ k >= 1 /\ ls.a = ret.alpha /\ ls.a # Int2R(1)

\* C13: whatever flag and iteration count the line search returned, the
\* outer iteration moves x by the returned alpha along p and counts itself,
\* and whether the loop goes on depends on k, N, ng and err alone.
C13_UpdateUnconditional ==
  [][/\ pc = "ls_ret" => /\ pc' = "gn"
                         /\ x' = RAdd(x, RMul(ret.alpha, p))
                         /\ k' = k + 1
     /\ pc = "gn" => (pc' = "done" <=> ~(k < N /\ RLt(err, ng)))]_vars

\* A line search that used all its iterations and came back flagged was
\* followed by the update, and the loop goes on.
C13_Witness ==
  /\ pc = "gn" /\ k >= 1 /\ k < N /\ RLt(err, ng)
  /\ ret.chk /\ ret.i = lsi /\ lsi >= 1
  /\ x = RAdd(ls.x, RMul(ret.alpha, ls.p)) /\ x # ls.x

\* C14: an outer iteration appends one entry to F and one to G, the values
\* of f and of the norm of df at the new iterate, and no other step touches
\* F or G; once an iteration is done the last entries are those at x.
C14_Histories ==
  /\ [][IF pc = "ls_ret"
          THEN /\ Known(seen', x')
               /\ F' = Append(F, ValueAt(seen', x')[1])
               /\ G' = Append(G, Norm(ValueAt(seen', x')[2]))
          ELSE F' = F /\ G' = G]_vars
  /\ []((pc \in { "gn", "done" } /\ k >= 1)
          => /\ Known(seen, x)
             /\ Last(F) = ValueAt(seen, x)[1]
             /\ Last(G) = Norm(ValueAt(seen, x)[2]))

\* A call has returned two entries that differ, the last one taken at x.
C14_Witness ==
  /\ pc = "done" /\ k = 2 /\ Len(F) = 2 /\ F[1] # F[2] /\ G[1] # G[2]
  /\ x # x0 /\ F[2] = ValueAt(seen, x)[1]


\* C15: a call of line_search_wolfe that has made i bracketing iterations
\* has called f i + 2 times and g i + 2 times, so a call that returns the
\* count i has made i + 2 calls of each.
C15_EvaluationCount ==
  /\ pc \in { "ls", "ls_ret" } => ls.fcalls = ls.i + 2 /\ ls.gcalls = ls.i + 2
  /\ pc = "ls_ret" => ls.fcalls = ret.i + 2 /\ ls.gcalls = ret.i + 2

\* A call has returned after two iterations, one of which kept its point.
C15_Witness ==
  /\ pc = "ls_ret" /\ ret.i = 2 /\ ls.fcalls = 4 /\ ls.gcalls = 4
  /\ ret.alpha = Midpoint(Zero, ls.a)

\* The trial point of frame l satisfies both conditions strictly.
Strict(l) == RLt(l.fz, l.W1) /\ RLt(l.W2, l.hz)

\* C16: when the first trial a satisfies both conditions strictly, or m is
\* 0, line_search_wolfe returns a itself with the count 0.
C16_FirstTrialReturned ==
  [][(pc = "ls" /\ ls.i = 0 /\ (Strict(ls) \/ ls.m = 0))
       => (pc' = "ls_ret" /\ ret'.alpha = ls.a /\ ret'.i = 0)]_vars

\* A call with m >= 1 has returned its strictly acceptable first trial.
C16_Witness ==
  /\ pc = "ls_ret" /\ ls.m >= 1 /\ Strict(ls)
  /\ ret.i = 0 /\ ret.alpha = ls.a /\ ls.a # Int2R(1)

\* C17: the array the caller passed to gauss_newton keeps its contents, and
\* while line_search_wolfe runs, its x and p and every local of
\* gauss_newton stay as they were at the call.
C17_InputsUntouched ==
  /\ [][/\ x0' = x0
        /\ pc = "ls" => /\ ls'.x = ls.x /\ ls'.p = ls.p
                        /\ x' = x /\ p' = p /\ alpha' = alpha /\ ng' = ng
                        /\ F' = F /\ G' = G /\ k' = k]_vars
  /\ [](pc \in { "ls", "ls_ret" } => ls.x = x /\ ls.p = p)

\* gauss_newton has returned a point other than the caller's.
C17_Witness == pc = "done" /\ k >= 1 /\ x # x0 /\ ~aliased

\* C18: for a > 0, after i bracketing iterations alpha lies between
\* a / 2^i and a * 2^i, hence the returned alpha between a / 2^m and
\* a * 2^m; and after k outer iterations the alpha of gauss_newton lies
\* between 1 / 2^(lsi * k) and 2^(lsi * k).
C18_StepRange ==
  /\ (pc \in { "ls", "ls_ret" } /\ RLt(Zero, ls.a))
       => /\ RLe(ls.a, RMul(Int2R(2 ^ ls.i), ls.alpha))
          /\ RLe(ls.alpha, RMul(Int2R(2 ^ ls.i), ls.a))
  /\ (pc = "ls_ret" /\ RLt(Zero, ls.a))
       => /\ RLe(ls.a, RMul(Int2R(2 ^ ls.m), ret.alpha))
          /\ RLe(ret.alpha, RMul(Int2R(2 ^ ls.m), ls.a))
  /\ pc \in { "gn", "done" }
       => /\ RLe(Int2R(1), RMul(Int2R(2 ^ (lsi * k)), alpha))
          /\ RLe(alpha, Int2R(2 ^ (lsi * k)))

\* Both outer iterations halved alpha in every bracketing iteration.
C18_Witness ==
  /\ pc = "done" /\ k = 2 /\ lsi = 2 /\ alpha = Rat(1, 2 ^ (lsi * k))

\* The trial point of frame l satisfies both conditions, one with equality.
Equality(l) ==
  /\ RLe(l.fz, l.W1) /\ RLe(l.W2, l.hz)
  /\ (l.fz = l.W1 \/ l.hz = l.W2)

\* C19: once a trial point meets both conditions with equality in one,
\* each remaining iteration only counts, and the call returns that alpha
\* with the count m and the flag False.
C19_EqualityIdles ==
  [][(pc = "ls" /\ Equality(ls))
       => IF ls.i < ls.m
            THEN /\ pc' = "ls" /\ ls'.i = ls.i + 1
                 /\ ls'.alpha_min = ls.alpha_min /\ ls'.alpha = ls.alpha
                 /\ ls'.alpha_max = ls.alpha_max
                 /\ ls'.fz = ls.fz /\ ls'.hz = ls.hz
            ELSE /\ pc' = "ls_ret"
                 /\ ret' = [ alpha |-> ls.alpha, i |-> ls.m, chk |-> FALSE ]]_vars

\* A call moved alpha once, met equality and idled to the count m = 2.
C19_Witness ==
  /\ pc = "ls_ret" /\ Equality(ls) /\ ls.m = 2
  /\ ret.i = 2 /\ ~ret.chk /\ ret.alpha = ls.alpha /\ ret.alpha # ls.a

\* C20: gauss_newton makes a first outer iteration exactly when N >= 1 and
\* err > 0; neither callable is evaluated before it; without it the call
\* returns the initial point, empty F and G, and k = 0.
C20_FirstIteration ==
  /\ (pc = "gn" /\ k = 0) => (seen = << >> /\ ncall = 0)
  /\ pc = "done"
       => /\ k >= 1 <=> (N >= 1 /\ RLt(Zero, err))
          /\ k = 0 => (x = x0 /\ F = << >> /\ G = << >>)

\* A step was taken from a point whose gradient norm is 0 <= err.
C20_Witness ==
  /\ pc = "done" /\ k >= 1 /\ prob = "quad" /\ x0 = Zero
  /\ Norm(QuadDf(x0)) = Zero /\ RLt(Zero, err) /\ Len(G) = k

====
